---- MODULE Spec2Model ----
(***************************************************************************)
(* HQMultiCodec (proxygen/lib/http/codec/HQMultiCodec.h): the per-         *)
(* connection HTTP/3 codec that owns one HQStreamCodec per stream, routes  *)
(* ingress through a current-stream cursor and egress by stream id, and    *)
(* keeps the stream-id / push-id counters.                                 *)
(*                                                                         *)
(* StreamID and the push-id counters are uint64_t.  A uint64_t value is    *)
(* modelled as its four 16-bit limbs, most significant first, so that      *)
(* `streamId + 4` and `pushId + 1` wrap modulo 2^64 exactly as in C++.     *)
(***************************************************************************)
EXTENDS Integers, Sequences, FiniteSets, TLC

\* ---------------------------------------------------------------- bounds
\* Calls made on the object over one run.
MaxCalls == 5

\* ------------------------------------------------------- uint64 arithmetic
\* One limb of a uint64_t: 16 bits.
Limb == 2^16

\* The uint64_t whose value is the small natural n (n < 2^16).
U64(n) == <<0, 0, 0, n>>

\* a + n in uint64_t (n < 2^16): ripple-carry addition, carry out of the top
\* limb dropped, i.e. (a + n) mod 2^64.
U64Add(a, n) ==
  LET s4 == a[4] + n
      s3 == a[3] + (s4 \div Limb)
      s2 == a[2] + (s3 \div Limb)
      s1 == a[1] + (s2 \div Limb)
  IN  <<s1 % Limb, s2 % Limb, s3 % Limb, s4 % Limb>>

\* a < b on uint64_t (unsigned comparison).
U64Less(a, b) ==
  \/ a[1] < b[1]
  \/ a[1] = b[1] /\ a[2] < b[2]
  \/ a[1] = b[1] /\ a[2] = b[2] /\ a[3] < b[3]
  \/ a[1] = b[1] /\ a[2] = b[2] /\ a[3] = b[3] /\ a[4] < b[4]

\* a >= b on uint64_t.
U64Geq(a, b) == ~U64Less(a, b)

\* std::min where std::max was meant.
U64Max_Min(a, b) == IF U64Less(a, b) THEN a ELSE b

\* std::max on uint64_t.
U64Max(a, b) == IF U64Less(a, b) THEN b ELSE a

\* streamId & 0x3.
U64And3(a) == a[4] % 4

\* std::numeric_limits<uint64_t>::max(), 2^64 - 1.
U64Top == <<Limb - 1, Limb - 1, Limb - 1, Limb - 1>>

\* HTTPCodec::MaxStreamID, the "no stream selected" sentinel.
MaxStreamID == U64Top

\* ------------------------------------------------------------- input sets
\* Stream ids handed to addCodec / removeCodec / setCurrentStream / generate*:
\* client bidi 4 and 8, a unidirectional 9, and the largest client bidi id
\* 2^64 - 4.
StreamIds == {U64(4), U64(8), U64(9), <<Limb - 1, Limb - 1, Limb - 1, Limb - 4>>}

\* Push ids announced by the peer: 3, 5 and the largest uint64_t.
PushIds == {U64(3), U64(5), U64Top}

\* HTTPCodec::Callback* values; NullCb is nullptr.
NullCb == "nullptr"
Callbacks == {"cb1", "cb2"}

\* TransportDirection.
Directions == {"UPSTREAM", "DOWNSTREAM"}

\* What the inner HQStreamCodec reports for an ingress call.
Outcomes == {"ok", "error"}

\* An HQStreamCodec object is named by the stream id it was constructed with
\* and its number k >= 1 among the objects built for that id (the k-th
\* addCodec(id) call builds number k).  NoCodec names no object.
NoCodec == <<U64(0), 0>>

VARIABLES
  transportDirection_,   \* TransportDirection, fixed at construction
  codecs_,               \* F14FastMap<StreamID, unique_ptr<HQStreamCodec>>
  currentStream_,        \* StreamID cursor
  minUnseenStreamID_,    \* uint64_t
  minUnseenPushID_,      \* uint64_t
  nextPushID_,           \* uint64_t
  callback_,             \* HTTPCodec::Callback*
  sentGoaway_,           \* bool (HQControlCodec)
  aborted,               \* a CHECK failed: the process has terminated
  calls,                 \* number of calls made on the object so far
  lastOp,                \* the last call made and what it returned
  pushAllocs,            \* history: nextPushID() calls that returned
  adds,                  \* history: per id, addCodec(id) calls
  removes                \* history: per id, removeCodec(id) calls that erased

prog == <<transportDirection_, codecs_, currentStream_, minUnseenStreamID_,
          minUnseenPushID_, nextPushID_, callback_, sentGoaway_>>
hist == <<pushAllocs, adds, removes>>
vars == <<prog, aborted, calls, lastOp, hist>>

\* The record kept of a call: its name, its StreamID / push-id argument, its
\* callback argument, the uint64_t it returned, the bool it returned (for the
\* ingress calls: whether the inner codec reported success), and the codec
\* object the call reached or returned.
Call(op, arg, cb, ret, ok, target) ==
  [op |-> op, arg |-> arg, cb |-> cb, ret |-> ret, ok |-> ok, target |-> target]

\* The empty codecs_ map.
NoCodecs == [id \in {} |-> [streamId |-> id, inst |-> 0, callback |-> NullCb]]

\* The state after HQMultiCodec(direction).
Init ==
  /\ transportDirection_ \in Directions
  /\ codecs_ = NoCodecs
  /\ currentStream_ = MaxStreamID
  /\ minUnseenStreamID_ = U64(0)
  /\ minUnseenPushID_ = U64(0)
  /\ nextPushID_ = U64(0)
  /\ callback_ = NullCb
  /\ sentGoaway_ = FALSE
  /\ aborted = FALSE
  /\ calls = 0
  /\ lastOp = Call("init", U64(0), NullCb, U64(0), TRUE, NoCodec)
  /\ pushAllocs = 0
  /\ adds = [id \in StreamIds |-> 0]
  /\ removes = [id \in StreamIds |-> 0]

\* A call is made: the process is alive and the run has calls left.
Enter ==
  /\ ~aborted
  /\ calls < MaxCalls
  /\ calls' = calls + 1

\* A failed CHECK: the process aborts, nothing else changes.
Abort(op, arg) ==
  /\ aborted' = TRUE
  /\ lastOp' = Call(op, arg, NullCb, U64(0), FALSE, NoCodec)
  /\ UNCHANGED <<prog, hist>>

\* codecs_.find(stream) != codecs_.end()
HasCodec(stream) == stream \in DOMAIN codecs_

\* getCodec(stream): the codec object registered for stream (CHECKed present).
getCodec(stream) == <<codecs_[stream].streamId, codecs_[stream].inst>>

\* getCurrentCodec()
getCurrentCodec == getCodec(currentStream_)

\* setCurrentStream without the codecs_.find() test: the cursor is set to any id.
SetCurrentStream_NoLookup(currentStream) ==
  /\ Enter
  /\ currentStream_' = currentStream
  /\ lastOp' = Call("setCurrentStream", currentStream, NullCb, U64(0), TRUE,
                    NoCodec)
  /\ UNCHANGED <<transportDirection_, codecs_, minUnseenStreamID_,
                 minUnseenPushID_, nextPushID_, callback_, sentGoaway_,
                 aborted, hist>>

\* bool setCurrentStream(StreamID currentStream)
SetCurrentStream(currentStream) ==
  /\ Enter
  /\ IF ~HasCodec(currentStream)
       THEN /\ lastOp' = Call("setCurrentStream", currentStream, NullCb, U64(0),
                              FALSE, NoCodec)
            /\ UNCHANGED currentStream_
       ELSE /\ currentStream_' = currentStream
            /\ lastOp' = Call("setCurrentStream", currentStream, NullCb, U64(0),
                              TRUE, NoCodec)
  /\ UNCHANGED <<transportDirection_, codecs_, minUnseenStreamID_,
                 minUnseenPushID_, nextPushID_, callback_, sentGoaway_,
                 aborted, hist>>

\* The bump without the `streamId >= minUnseenStreamID_` test.
BumpedMinUnseenStreamID_NoBoundTest(streamId) ==
  IF /\ transportDirection_ = "DOWNSTREAM"
     /\ U64And3(streamId) = 0
    THEN U64Add(streamId, 4)
    ELSE minUnseenStreamID_

\* The value addCodec(streamId) leaves in minUnseenStreamID_: bumped only for
\* client-initiated bidirectional streams at or above the bound, DOWNSTREAM.
BumpedMinUnseenStreamID(streamId) ==
  IF /\ transportDirection_ = "DOWNSTREAM"
     /\ U64And3(streamId) = 0
     /\ U64Geq(streamId, minUnseenStreamID_)
    THEN U64Add(streamId, 4)
    ELSE minUnseenStreamID_

\* insert_or_assign where emplace was meant: the new object replaces the entry.
Emplace_Overwrite(streamId, inst) ==
  [id \in DOMAIN codecs_ \cup {streamId} |->
     IF id = streamId
       THEN [streamId |-> streamId, inst |-> inst, callback |-> NullCb]
       ELSE codecs_[id]]

\* codecs_.emplace(streamId, std::make_unique<HQStreamCodec>(...)): the new
\* object (number inst among those built for streamId) is registered only
\* when streamId has no entry; otherwise the map is left as it is and the new
\* object is destroyed.
Emplace(streamId, inst) ==
  IF HasCodec(streamId)
    THEN codecs_
    ELSE [id \in DOMAIN codecs_ \cup {streamId} |->
            IF id = streamId
              THEN [streamId |-> streamId, inst |-> inst, callback |-> NullCb]
              ELSE codecs_[id]]

\* HTTPCodec& addCodec(StreamID streamId)
AddCodec(streamId) ==
  /\ Enter
  /\ minUnseenStreamID_' = BumpedMinUnseenStreamID(streamId)
  /\ LET res == Emplace(streamId, adds[streamId] + 1)
     IN  \* codec->setCallback(callback_) on res.first->second
         /\ codecs_' = [res EXCEPT ![streamId].callback = callback_]
         /\ lastOp' = Call("addCodec", streamId, NullCb, U64(0), TRUE,
                           <<res[streamId].streamId, res[streamId].inst>>)
  /\ adds' = [adds EXCEPT ![streamId] = @ + 1]
  /\ UNCHANGED <<transportDirection_, currentStream_, minUnseenPushID_,
                 nextPushID_, callback_, sentGoaway_, aborted, pushAllocs,
                 removes>>

\* removeCodec that erases only an entry that is not the duplicate-added one:
\* an id added twice survives its first removeCodec (a counting registry).
RemoveCodec_Counting(streamId) ==
  /\ Enter
  /\ codecs_' = IF adds[streamId] - removes[streamId] > 1
                  THEN codecs_
                  ELSE [id \in DOMAIN codecs_ \ {streamId} |-> codecs_[id]]
  /\ lastOp' = Call("removeCodec", streamId, NullCb, U64(0), TRUE, NoCodec)
  /\ removes' = [removes EXCEPT ![streamId] =
                   IF HasCodec(streamId) THEN @ + 1 ELSE @]
  /\ UNCHANGED <<transportDirection_, currentStream_, minUnseenStreamID_,
                 minUnseenPushID_, nextPushID_, callback_, sentGoaway_,
                 aborted, pushAllocs, adds>>

\* removeCodec calling codecs_.clear() instead of codecs_.erase(streamId).
RemoveCodec_Clear(streamId) ==
  /\ Enter
  /\ codecs_' = IF HasCodec(streamId) THEN NoCodecs ELSE codecs_
  /\ lastOp' = Call("removeCodec", streamId, NullCb, U64(0), TRUE, NoCodec)
  /\ removes' = [removes EXCEPT ![streamId] =
                   IF HasCodec(streamId) THEN @ + 1 ELSE @]
  /\ UNCHANGED <<transportDirection_, currentStream_, minUnseenStreamID_,
                 minUnseenPushID_, nextPushID_, callback_, sentGoaway_,
                 aborted, pushAllocs, adds>>

\* void removeCodec(StreamID streamId)
RemoveCodec(streamId) ==
  /\ Enter
  /\ codecs_' = [id \in DOMAIN codecs_ \ {streamId} |-> codecs_[id]]
  /\ lastOp' = Call("removeCodec", streamId, NullCb, U64(0), TRUE, NoCodec)
  /\ removes' = [removes EXCEPT ![streamId] =
                   IF HasCodec(streamId) THEN @ + 1 ELSE @]
  /\ UNCHANGED <<transportDirection_, currentStream_, minUnseenStreamID_,
                 minUnseenPushID_, nextPushID_, callback_, sentGoaway_,
                 aborted, pushAllocs, adds>>

\* setCallback without the loop over codecs_.
SetCallback_NoFanOut(callback) ==
  /\ Enter
  /\ callback_' = callback
  /\ lastOp' = Call("setCallback", U64(0), callback, U64(0), TRUE, NoCodec)
  /\ UNCHANGED <<transportDirection_, codecs_, currentStream_,
                 minUnseenStreamID_, minUnseenPushID_, nextPushID_,
                 sentGoaway_, aborted, hist>>

\* void setCallback(HTTPCodec::Callback* callback)
SetCallback(callback) ==
  /\ Enter
  /\ callback_' = callback
  /\ codecs_' = [id \in DOMAIN codecs_ |->
                   [codecs_[id] EXCEPT !.callback = callback]]
  /\ lastOp' = Call("setCallback", U64(0), callback, U64(0), TRUE, NoCodec)
  /\ UNCHANGED <<transportDirection_, currentStream_, minUnseenStreamID_,
                 minUnseenPushID_, nextPushID_, sentGoaway_, aborted, hist>>

\* The ingress path resetting the cursor only when the inner codec succeeded.
Ingress_ResetOnSuccessOnly(op, outcome) ==
  IF ~HasCodec(currentStream_)
    THEN Abort(op, currentStream_)
    ELSE /\ currentStream_' = IF outcome = "ok" THEN MaxStreamID
                                                ELSE currentStream_
         /\ lastOp' = Call(op, currentStream_, NullCb, U64(0), outcome = "ok",
                           getCurrentCodec)
         /\ UNCHANGED <<transportDirection_, codecs_, minUnseenStreamID_,
                        minUnseenPushID_, nextPushID_, callback_, sentGoaway_,
                        aborted, hist>>

\* The ingress path shared by onIngress and onIngressEOF: the call goes to
\* getCurrentCodec() (CHECK-fails when currentStream_ has no codec) and the
\* cursor is reset whatever the inner codec reported.
Ingress(op, outcome) ==
  IF ~HasCodec(currentStream_)
    THEN Abort(op, currentStream_)
    ELSE /\ currentStream_' = MaxStreamID
         /\ lastOp' = Call(op, currentStream_, NullCb, U64(0), outcome = "ok",
                           getCurrentCodec)
         /\ UNCHANGED <<transportDirection_, codecs_, minUnseenStreamID_,
                        minUnseenPushID_, nextPushID_, callback_, sentGoaway_,
                        aborted, hist>>

\* size_t onIngress(const folly::IOBuf& buf)
OnIngress(outcome) ==
  /\ Enter
  /\ Ingress("onIngress", outcome)

\* void onIngressEOF()
OnIngressEOF(outcome) ==
  /\ Enter
  /\ Ingress("onIngressEOF", outcome)

\* isReusable ignoring sentGoaway_.
isReusable_Always == TRUE

\* bool isReusable() const
isReusable == ~sentGoaway_

\* The egress path forwarding to getCurrentCodec() instead of getCodec(stream).
Egress_ViaCursor(op, stream) ==
  IF ~HasCodec(currentStream_)
    THEN Abort(op, stream)
    ELSE /\ lastOp' = Call(op, stream, NullCb, U64(0), TRUE, getCurrentCodec)
         /\ UNCHANGED <<prog, aborted, hist>>

\* The egress path resetting the cursor as the ingress path does.
Egress_ResetsCursor(op, stream) ==
  IF ~HasCodec(stream)
    THEN Abort(op, stream)
    ELSE /\ currentStream_' = MaxStreamID
         /\ lastOp' = Call(op, stream, NullCb, U64(0), TRUE, getCodec(stream))
         /\ UNCHANGED <<transportDirection_, codecs_, minUnseenStreamID_,
                        minUnseenPushID_, nextPushID_, callback_, sentGoaway_,
                        aborted, hist>>

\* The egress path shared by the generate* calls: forwarded to
\* getCodec(stream), which CHECK-fails when stream has no codec.
Egress(op, stream) ==
  IF ~HasCodec(stream)
    THEN Abort(op, stream)
    ELSE /\ lastOp' = Call(op, stream, NullCb, U64(0), TRUE, getCodec(stream))
         /\ UNCHANGED <<prog, aborted, hist>>

\* void generateHeader(writeBuf, stream, msg, eom, size, extraHeaders)
GenerateHeader(stream) ==
  /\ Enter
  /\ Egress("generateHeader", stream)

\* void generatePushPromise(writeBuf, stream, msg, pushID, eom, size)
GeneratePushPromise(stream) ==
  /\ Enter
  /\ Egress("generatePushPromise", stream)

\* size_t generateBody(writeBuf, stream, chain, padding, eom)
GenerateBody(stream) ==
  /\ Enter
  /\ Egress("generateBody", stream)

\* size_t generateTrailers(writeBuf, stream, trailers)
GenerateTrailers(stream) ==
  /\ Enter
  /\ Egress("generateTrailers", stream)

\* size_t generateEOM(writeBuf, stream)
GenerateEOM(stream) ==
  /\ Enter
  /\ Egress("generateEOM", stream)

\* nextPushID also raising minUnseenPushID_ past the id it hands out.
NextPushID_BumpsMinUnseenPushID ==
  /\ Enter
  /\ IF transportDirection_ # "DOWNSTREAM"
       THEN Abort("nextPushID", U64(0))
       ELSE /\ nextPushID_' = U64Add(nextPushID_, 1)
            /\ minUnseenPushID_' =
                 U64Max(minUnseenPushID_, U64Add(nextPushID_, 1))
            /\ lastOp' = Call("nextPushID", U64(0), NullCb, nextPushID_, TRUE,
                              NoCodec)
            /\ pushAllocs' = pushAllocs + 1
            /\ UNCHANGED <<transportDirection_, codecs_, currentStream_,
                           minUnseenStreamID_, callback_, sentGoaway_,
                           aborted, adds, removes>>

\* nextPushID without the CHECK_EQ on the direction.
NextPushID_NoCheck ==
  /\ Enter
  /\ nextPushID_' = U64Add(nextPushID_, 1)
  /\ lastOp' = Call("nextPushID", U64(0), NullCb, nextPushID_, TRUE, NoCodec)
  /\ pushAllocs' = pushAllocs + 1
  /\ UNCHANGED <<transportDirection_, codecs_, currentStream_,
                 minUnseenStreamID_, minUnseenPushID_, callback_,
                 sentGoaway_, aborted, adds, removes>>

\* nextPushID returning ++nextPushID_ instead of nextPushID_++.
NextPushID_PreIncrement ==
  /\ Enter
  /\ IF transportDirection_ # "DOWNSTREAM"
       THEN Abort("nextPushID", U64(0))
       ELSE /\ nextPushID_' = U64Add(nextPushID_, 1)
            /\ lastOp' = Call("nextPushID", U64(0), NullCb,
                              U64Add(nextPushID_, 1), TRUE, NoCodec)
            /\ pushAllocs' = pushAllocs + 1
            /\ UNCHANGED <<transportDirection_, codecs_, currentStream_,
                           minUnseenStreamID_, minUnseenPushID_, callback_,
                           sentGoaway_, aborted, adds, removes>>

\* uint64_t nextPushID()
NextPushID ==
  /\ Enter
  /\ IF transportDirection_ # "DOWNSTREAM"
       THEN Abort("nextPushID", U64(0))
       ELSE /\ nextPushID_' = U64Add(nextPushID_, 1)
            /\ lastOp' = Call("nextPushID", U64(0), NullCb, nextPushID_, TRUE,
                              NoCodec)
            /\ pushAllocs' = pushAllocs + 1
            /\ UNCHANGED <<transportDirection_, codecs_, currentStream_,
                           minUnseenStreamID_, minUnseenPushID_, callback_,
                           sentGoaway_, aborted, adds, removes>>

\* onIngressPushId storing pushId + 1 without std::max.
OnIngressPushId_NoMax(pushId) ==
  /\ Enter
  /\ minUnseenPushID_' = U64Add(pushId, 1)
  /\ lastOp' = Call("onIngressPushId", pushId, NullCb, U64(0), TRUE, NoCodec)
  /\ UNCHANGED <<transportDirection_, codecs_, currentStream_,
                 minUnseenStreamID_, nextPushID_, callback_, sentGoaway_,
                 aborted, hist>>

\* void onIngressPushId(uint64_t pushId)
OnIngressPushId(pushId) ==
  /\ Enter
  /\ minUnseenPushID_' = U64Max(minUnseenPushID_, U64Add(pushId, 1))
  /\ lastOp' = Call("onIngressPushId", pushId, NullCb, U64(0), TRUE, NoCodec)
  /\ UNCHANGED <<transportDirection_, codecs_, currentStream_,
                 minUnseenStreamID_, nextPushID_, callback_, sentGoaway_,
                 aborted, hist>>

\* A connection-level GOAWAY is recorded (HQControlCodec::generateGoaway, the
\* inherited operation that sets sentGoaway_).
GenerateGoaway ==
  /\ Enter
  /\ sentGoaway_' = TRUE
  /\ lastOp' = Call("generateGoaway", U64(0), NullCb, U64(0), TRUE, NoCodec)
  /\ UNCHANGED <<transportDirection_, codecs_, currentStream_,
                 minUnseenStreamID_, minUnseenPushID_, nextPushID_, callback_,
                 aborted, hist>>

Next ==
  \/ \E id \in StreamIds : SetCurrentStream(id)
  \/ \E id \in StreamIds : AddCodec(id)
  \/ \E id \in StreamIds : RemoveCodec(id)
  \/ \E cb \in Callbacks : SetCallback(cb)
  \/ \E outcome \in Outcomes : OnIngress(outcome)
  \/ \E outcome \in Outcomes : OnIngressEOF(outcome)
  \/ \E id \in StreamIds : GenerateHeader(id)
  \/ \E id \in StreamIds : GeneratePushPromise(id)
  \/ \E id \in StreamIds : GenerateBody(id)
  \/ \E id \in StreamIds : GenerateTrailers(id)
  \/ \E id \in StreamIds : GenerateEOM(id)
  \/ NextPushID
  \/ \E p \in PushIds : OnIngressPushId(p)
  \/ GenerateGoaway

Spec == Init /\ [][Next]_vars

\* ------------------------------------------------------------------ claims

IngressOps == {"onIngress", "onIngressEOF"}

\* C1: whenever the last call was onIngress or onIngressEOF and it returned
\* (no CHECK failed), currentStream_ is the sentinel HTTPCodec::MaxStreamID,
\* whether the inner codec reported success or failure.
C1_CursorResetAfterIngress ==
  (lastOp.op \in IngressOps /\ ~aborted) => currentStream_ = MaxStreamID

\* C1 witness: an onIngress call that reached a codec, whose inner codec
\* reported failure, has returned.
C1_Witness ==
  /\ lastOp.op = "onIngress"
  /\ ~aborted
  /\ ~lastOp.ok
  /\ lastOp.target # NoCodec

\* C2: a setCurrentStream(id) call returns true exactly when id is a key of
\* codecs_ at the call; then currentStream_ becomes id; when it returns false,
\* currentStream_ and all the rest of the object's state are left as they were.
C2_SetCurrentStream ==
  [][lastOp'.op = "setCurrentStream" =>
       /\ lastOp'.ok <=> lastOp'.arg \in DOMAIN codecs_
       /\ lastOp'.ok => currentStream_' = lastOp'.arg
       /\ ~lastOp'.ok => prog' = prog
       /\ ~aborted']_vars

\* C2 witness: setCurrentStream(id) returned false for an id that had been
\* added and removed, while the cursor held another, selected stream.
C2_Witness ==
  /\ lastOp.op = "setCurrentStream"
  /\ ~lastOp.ok
  /\ removes[lastOp.arg] > 0
  /\ currentStream_ # MaxStreamID
  /\ currentStream_ # lastOp.arg

\* C3 as stated: codecs_ contains id exactly when the addCodec(id) calls
\* outnumber the removeCodec(id) calls that matched (erased) an entry.
C3_NetPositiveAdds ==
  \A id \in StreamIds : id \in DOMAIN codecs_ <=> adds[id] > removes[id]

\* C3 amended: membership of id in codecs_ is decided by the latest
\* addCodec(id) / removeCodec(id) call alone: after addCodec(id) the registry
\* contains id, after removeCodec(id) it does not, and no other call changes
\* whether it does.
C3_LatestCallDecides ==
  [][\A id \in StreamIds :
       id \in DOMAIN codecs_' <=>
         IF lastOp'.op = "addCodec" /\ lastOp'.arg = id THEN TRUE
         ELSE IF lastOp'.op = "removeCodec" /\ lastOp'.arg = id THEN FALSE
         ELSE id \in DOMAIN codecs_]_vars

\* C3 witness: id was added twice and removed once, and is not registered.
C3_Witness ==
  \E id \in StreamIds :
    /\ adds[id] = 2
    /\ removes[id] = 1
    /\ lastOp.op = "removeCodec"
    /\ lastOp.arg = id
    /\ id \notin DOMAIN codecs_

\* C4: an addCodec(id) call in DOWNSTREAM role with id mod 4 = 0 and
\* id >= minUnseenStreamID_ sets minUnseenStreamID_ to id + 4 (uint64_t
\* addition, as in the code); every other addCodec call leaves it unchanged.
C4_AddCodecBump ==
  [][lastOp'.op = "addCodec" =>
       LET id == lastOp'.arg
           peerBidi == id[4] % 4 = 0
           belowBound == U64Less(id, minUnseenStreamID_)
       IN  IF transportDirection_ = "DOWNSTREAM" /\ peerBidi /\ ~belowBound
             THEN minUnseenStreamID_' = U64Add(id, 4)
             ELSE minUnseenStreamID_' = minUnseenStreamID_]_vars

\* C4 witness: DOWNSTREAM, addCodec(4), addCodec(8), addCodec(9) were the
\* three calls made, and minUnseenStreamID_ is 12.
C4_Witness ==
  /\ transportDirection_ = "DOWNSTREAM"
  /\ calls = 3
  /\ adds[U64(4)] = 1
  /\ adds[U64(8)] = 1
  /\ lastOp.op = "addCodec"
  /\ lastOp.arg = U64(9)
  /\ minUnseenStreamID_ = U64(12)

\* C5: minUnseenStreamID_ never decreases from one state to the next.
C5_MinUnseenStreamIDMonotone ==
  [][U64Geq(minUnseenStreamID_', minUnseenStreamID_)]_vars

\* C6: in DOWNSTREAM role the k-th nextPushID() call (k from 0) returns k and
\* adds exactly 1 to nextPushID_; no other call changes nextPushID_.
C6_NextPushID ==
  [][/\ (lastOp'.op = "nextPushID" /\ ~aborted') =>
          /\ transportDirection_ = "DOWNSTREAM"
          /\ lastOp'.ret = U64(pushAllocs)
          /\ nextPushID_' = U64(pushAllocs + 1)
          /\ nextPushID_ = U64(pushAllocs)
     /\ (lastOp'.op # "nextPushID" \/ aborted') =>
          nextPushID_' = nextPushID_]_vars

\* C6 witness: the third nextPushID() call returned 2, with other calls
\* made in between.
C6_Witness ==
  /\ lastOp.op = "nextPushID"
  /\ ~aborted
  /\ pushAllocs = 3
  /\ lastOp.ret = U64(2)
  /\ calls > 3

\* C7: onIngressPushId(pushId) leaves minUnseenPushID_ at the larger of its
\* previous value and pushId + 1 (uint64_t addition, as in the code): the new
\* value is one of the two and is below neither.
C7_OnIngressPushIdMax ==
  [][lastOp'.op = "onIngressPushId" =>
       LET next == U64Add(lastOp'.arg, 1)
       IN  /\ minUnseenPushID_' \in {minUnseenPushID_, next}
           /\ ~U64Less(minUnseenPushID_', minUnseenPushID_)
           /\ ~U64Less(minUnseenPushID_', next)]_vars

\* C7 witness: onIngressPushId(5) then onIngressPushId(3) were the two calls
\* made, and minUnseenPushID_ is 6.
C7_Witness ==
  /\ calls = 2
  /\ lastOp.op = "onIngressPushId"
  /\ lastOp.arg = U64(3)
  /\ minUnseenPushID_ = U64(6)

\* C8: minUnseenPushID_ never decreases, and only onIngressPushId changes it.
C8_MinUnseenPushIDMonotone ==
  [][/\ U64Geq(minUnseenPushID_', minUnseenPushID_)
     /\ lastOp'.op # "onIngressPushId" =>
          minUnseenPushID_' = minUnseenPushID_]_vars

\* C8 witness: onIngressPushId(2^64 - 1) was called with the bound at 6, and
\* the bound is still 6.
C8_Witness ==
  /\ lastOp.op = "onIngressPushId"
  /\ lastOp.arg = U64Top
  /\ minUnseenPushID_ = U64(6)

\* C9: every codec in codecs_ holds the shared callback callback_, the one
\* most recently given to setCallback (nullptr before any).
C9_CallbackFanOut ==
  \A id \in DOMAIN codecs_ : codecs_[id].callback = callback_

\* C9 witness: setCallback(cb2) returned with a codec registered that was
\* created before an earlier setCallback(cb1), and another created after it.
C9_Witness ==
  /\ lastOp.op = "setCallback"
  /\ lastOp.cb = "cb2"
  /\ calls = 4
  /\ Cardinality(DOMAIN codecs_) = 2
  /\ \A id \in StreamIds : removes[id] = 0

\* C10: isReusable() is true initially and is the negation of sentGoaway_;
\* once false it stays false; a recorded GOAWAY makes it false and no other
\* call changes it.
C10_IsReusable ==
  /\ isReusable
  /\ [][/\ isReusable' <=> ~sentGoaway_'
        /\ ~isReusable => ~isReusable'
        /\ lastOp'.op = "generateGoaway" => ~isReusable'
        /\ lastOp'.op # "generateGoaway" => isReusable' = isReusable]_vars

\* C10 witness: a GOAWAY was recorded, addCodec was called afterwards, and
\* the codec is not reusable.
C10_Witness ==
  /\ sentGoaway_
  /\ ~isReusable
  /\ lastOp.op = "addCodec"
\* C11 as stated: addCodec(id) with id already registered overwrites the
\* entry: afterwards codecs_ maps id to the object this call constructed, and
\* the reference returned is to that object.
C11_DuplicateAddOverwrites ==
  [][(lastOp'.op = "addCodec" /\ lastOp'.arg \in DOMAIN codecs_) =>
       LET id == lastOp'.arg
       IN  /\ codecs_'[id].inst = adds'[id]
           /\ lastOp'.target = <<id, adds'[id]>>]_vars

\* C11 amended: addCodec(id) with id already registered keeps the entry:
\* afterwards codecs_ still maps id to the object registered before the call,
\* the reference returned is to that object (its callback set to callback_),
\* and the object this call constructed is not registered.
C11_DuplicateAddKeepsEntry ==
  [][(lastOp'.op = "addCodec" /\ lastOp'.arg \in DOMAIN codecs_) =>
       LET id == lastOp'.arg
       IN  /\ id \in DOMAIN codecs_'
           /\ codecs_'[id].inst = codecs_[id].inst
           /\ codecs_'[id].inst # adds'[id]
           /\ codecs_'[id].callback = callback_
           /\ lastOp'.target = <<id, codecs_[id].inst>>]_vars

\* C11 witness: addCodec(id) was called twice with no removeCodec(id), and
\* codecs_ maps id to the first object.
C11_Witness ==
  /\ lastOp.op = "addCodec"
  /\ adds[lastOp.arg] = 2
  /\ removes[lastOp.arg] = 0
  /\ codecs_[lastOp.arg].inst = 1
  /\ lastOp.target = <<lastOp.arg, 1>>

\* C12: whenever an ingress call may begin (the process is alive),
\* currentStream_ is the sentinel or a key of codecs_.
C12_CursorSentinelOrRegistered ==
  ~aborted => (currentStream_ = MaxStreamID \/ currentStream_ \in DOMAIN codecs_)

EgressOps == {"generateHeader", "generatePushPromise", "generateBody",
              "generateTrailers", "generateEOM"}

\* C13: a generate* call with stream id `stream` reaches exactly the codec
\* object registered for `stream`, and when `stream` has no registered codec
\* the call ends in the abort state having reached no codec.
C13_EgressDispatch ==
  [][lastOp'.op \in EgressOps =>
       LET stream == lastOp'.arg
       IN  IF stream \in DOMAIN codecs_
             THEN /\ ~aborted'
                  /\ lastOp'.target[1] = stream
                  /\ lastOp'.target[2] = codecs_[stream].inst
             ELSE /\ aborted'
                  /\ lastOp'.target = NoCodec]_vars

\* C13 witness: generateTrailers(8) reached stream 8's codec while stream 4
\* had a codec and was the selected stream.
C13_Witness ==
  /\ lastOp.op = "generateTrailers"
  /\ ~aborted
  /\ lastOp.arg = U64(8)
  /\ lastOp.target = <<U64(8), 1>>
  /\ currentStream_ = U64(4)
  /\ U64(4) \in DOMAIN codecs_

\* C14: a generate* call leaves the registry keys, nextPushID_,
\* minUnseenStreamID_, minUnseenPushID_ and currentStream_ as they were.
C14_EgressFrame ==
  [][lastOp'.op \in EgressOps =>
       /\ DOMAIN codecs_' = DOMAIN codecs_
       /\ nextPushID_' = nextPushID_
       /\ minUnseenStreamID_' = minUnseenStreamID_
       /\ minUnseenPushID_' = minUnseenPushID_
       /\ currentStream_' = currentStream_]_vars

\* C14 witness: generateBody returned with a stream selected, a push id
\* allocated and both bounds raised, all still in place.
C14_Witness ==
  /\ lastOp.op = "generateBody"
  /\ ~aborted
  /\ currentStream_ # MaxStreamID
  /\ nextPushID_ = U64(1)
  /\ minUnseenStreamID_ # U64(0)
  /\ minUnseenPushID_ # U64(0)

\* C15: nextPushID() in UPSTREAM role ends in the abort state: it returns no
\* push id and nextPushID_ keeps its value.
C15_NextPushIDUpstreamFatal ==
  [][(lastOp'.op = "nextPushID" /\ transportDirection_ = "UPSTREAM") =>
       /\ aborted'
       /\ ~lastOp'.ok
       /\ pushAllocs' = pushAllocs
       /\ nextPushID_' = nextPushID_]_vars

\* C15 witness: nextPushID() was called in UPSTREAM role after other calls
\* and the process has aborted.
C15_Witness ==
  /\ lastOp.op = "nextPushID"
  /\ transportDirection_ = "UPSTREAM"
  /\ aborted
  /\ calls > 1

\* C16: removeCodec(id) removes the entry of id if there is one and leaves
\* every other entry as it was; with no entry for id it changes nothing; in
\* both cases nextPushID_, minUnseenStreamID_ and minUnseenPushID_ are kept.
C16_RemoveCodecFrame ==
  [][lastOp'.op = "removeCodec" =>
       LET id == lastOp'.arg
       IN  /\ DOMAIN codecs_' = DOMAIN codecs_ \ {id}
           /\ \A other \in DOMAIN codecs_' : codecs_'[other] = codecs_[other]
           /\ id \notin DOMAIN codecs_ => prog' = prog
           /\ nextPushID_' = nextPushID_
           /\ minUnseenStreamID_' = minUnseenStreamID_
           /\ minUnseenPushID_' = minUnseenPushID_
           /\ ~aborted']_vars

\* C16 witness: removeCodec(id) erased id's entry and another stream's codec
\* is still registered.
C16_Witness ==
  /\ lastOp.op = "removeCodec"
  /\ removes[lastOp.arg] = 1
  /\ lastOp.arg \notin DOMAIN codecs_
  /\ DOMAIN codecs_ # {}

\* C17: an onIngress / onIngressEOF call reaches exactly the codec of the
\* stream selected by the last successful setCurrentStream since the previous
\* ingress call (currentStream_ is not the sentinel), and ends in the abort
\* state, reaching no codec, when none was selected (currentStream_ is the
\* sentinel).
C17_IngressDispatch ==
  [][lastOp'.op \in IngressOps =>
       IF currentStream_ # MaxStreamID
         THEN /\ ~aborted'
              /\ lastOp'.target # NoCodec
              /\ lastOp'.target[1] = currentStream_
         ELSE /\ aborted'
              /\ lastOp'.target = NoCodec]_vars

\* C18: in DOWNSTREAM role every registered id with id mod 4 = 0 is below
\* minUnseenStreamID_, and minUnseenStreamID_ is a multiple of 4.
C18_RegisteredBelowBound ==
  transportDirection_ = "DOWNSTREAM" =>
    /\ \A id \in DOMAIN codecs_ :
         id[4] % 4 = 0 => U64Less(id, minUnseenStreamID_)
    /\ minUnseenStreamID_[4] % 4 = 0

\* C19: after onIngressPushId(p), minUnseenPushID_ > p.
C19_BoundCoversPushId ==
  lastOp.op = "onIngressPushId" => U64Less(lastOp.arg, minUnseenPushID_)

NoCounterOps == {"setCurrentStream", "onIngress", "onIngressEOF", "setCallback"}

\* C20: addCodec leaves nextPushID_ and minUnseenPushID_ alone; nextPushID
\* changes nothing but nextPushID_; onIngressPushId changes nothing but
\* minUnseenPushID_; setCurrentStream, onIngress, onIngressEOF and setCallback
\* change none of the three counters and not the set of registry keys.
C20_CounterFrames ==
  [][/\ lastOp'.op = "addCodec" =>
          /\ nextPushID_' = nextPushID_
          /\ minUnseenPushID_' = minUnseenPushID_
     /\ lastOp'.op = "nextPushID" =>
          UNCHANGED <<transportDirection_, codecs_, currentStream_,
                      minUnseenStreamID_, minUnseenPushID_, callback_,
                      sentGoaway_>>
     /\ lastOp'.op = "onIngressPushId" =>
          UNCHANGED <<transportDirection_, codecs_, currentStream_,
                      minUnseenStreamID_, nextPushID_, callback_, sentGoaway_>>
     /\ lastOp'.op \in NoCounterOps =>
          /\ nextPushID_' = nextPushID_
          /\ minUnseenStreamID_' = minUnseenStreamID_
          /\ minUnseenPushID_' = minUnseenPushID_
          /\ DOMAIN codecs_' = DOMAIN codecs_]_vars

\* C20 witness: onIngress returned with a codec registered and all three
\* counters away from their initial values.
C20_Witness ==
  /\ lastOp.op = "onIngress"
  /\ ~aborted
  /\ DOMAIN codecs_ # {}
  /\ nextPushID_ # U64(0)
  /\ minUnseenStreamID_ # U64(0)
  /\ minUnseenPushID_ # U64(0)
====
